---- MODULE Spec2Model ----
(***************************************************************************)
(* Model of the Spotify streaming-history pipeline:                        *)
(*   stage 1  src/src/ReadProcess.py   (extract, clean, dimensions, fact)  *)
(*   stage 2  src/src/localization.py  (geolocation enrichment)            *)
(*   check    src/src/validate.py                                          *)
(*   driver   src/main.py                                                  *)
(*                                                                         *)
(* A DataFrame is a sequence of rows; a row is a function from column      *)
(* names to cells.  A cell of a column that may hold a missing value       *)
(* (None / NaN / NaT) is None or Some(v).  Text compared by the code with  *)
(* UNKNOWN_VALUE or searched for substrings (platform, URIs) is a sequence *)
(* of one-character strings; other text is a string.                       *)
(***************************************************************************)
EXTENDS Integers, Sequences, FiniteSets, TLC

VARIABLES
    raw,            \* RAW_DATA_DIR: None (absent) or Some(file name -> records)
    disk,           \* PROCESSED_DATA_DIR: artifact name -> None or Some(table)
    geo,            \* the GeoLite2 files under DB_DIR
    epc,            \* ReadProcess.main: position
    df,             \* ReadProcess.main: local df
    dims,           \* ReadProcess.main: locals dim_date .. dim_location
    fact_table,     \* ReadProcess.main: local fact_table
    exc,            \* the exception a stage raised, or None
    runs,           \* how many times stage 1 was started
    lpc,            \* enrich_location_dimension: position
    loc,            \* enrich_location_dimension: locals
    mpc,            \* main.py: position
    log,            \* main.py: what the orchestrator logged
    platform,       \* classify_device: argument
    device_type     \* classify_device: result

vars == <<raw, disk, geo, epc, df, dims, fact_table, exc, runs, lpc, loc, mpc,
          log, platform, device_type>>

etlVars == <<epc, df, dims, fact_table>>
enrichVars == <<lpc, loc>>
mainVars == <<mpc, log>>
classifyVars == <<platform, device_type>>

----------------------------------------------------------------------------
(* Bounds of the model *)

\* events in the input directory, over all its files
MaxEvents == 2
\* times the stage-1 script is run over the same directories
MaxRuns == 2
\* word fragments concatenated into a platform string
MaxFragments == 2

----------------------------------------------------------------------------
(* Cells and sequences *)

None == <<>>
Some(v) == <<v>>
isna(c) == c = None
notna(c) == c # None
Val(c) == c[1]

Range(s) == {s[i] : i \in 1..Len(s)}

RECURSIVE Concat(_)
Concat(ss) == IF ss = <<>> THEN <<>> ELSE Head(ss) \o Concat(Tail(ss))

\* [f(s[1]), .., f(s[n])]
Map(s, F(_)) == [i \in 1..Len(s) |-> F(s[i])]

\* the rows with the given columns only
Project(rows, cols) == [i \in 1..Len(rows) |-> [c \in cols |-> rows[i][c]]]

\* the rows with one column renamed
Rename(rows, old, new) ==
    [i \in 1..Len(rows) |->
        [c \in (DOMAIN rows[i] \ {old}) \cup {new} |->
            IF c = new THEN rows[i][old] ELSE rows[i][c]]]

\* permutations of a finite set, as sequences
Perms(S) ==
    {p \in [1..Cardinality(S) -> S] : \A i, j \in 1..Cardinality(S) : p[i] = p[j] => i = j}

\* all sequences over S of length at most n
SeqsUpTo(S, n) == UNION {[1..k -> S] : k \in 0..n}

----------------------------------------------------------------------------
(* Program constants: src/config.py *)

UNKNOWN_VALUE == <<"U", "n", "k", "n", "o", "w", "n">>
UNKNOWN_ID == -1
AUDIOBOOK_COLUMNS == {"audiobook_title"}

DIM_DATE_FILE == "dim_date"
DIM_DEVICE_FILE == "dim_device"
DIM_TRACK_FILE == "dim_track"
DIM_EPISODE_FILE == "dim_episode"
DIM_LOCATION_FILE == "dim_location"
DIM_LOCATION_ENRICHED_FILE == "dim_location_enriched"
FACT_TABLE_FILE == "fact_table"

Stage1Files ==
    <<DIM_DATE_FILE, DIM_DEVICE_FILE, DIM_TRACK_FILE, DIM_EPISODE_FILE,
      DIM_LOCATION_FILE, FACT_TABLE_FILE>>
Artifacts == Range(Stage1Files) \cup {DIM_LOCATION_ENRICHED_FILE}

CITY_DB == "GeoLite2-City"
ASN_DB == "GeoLite2-ASN"
COUNTRY_DB == "GeoLite2-Country"

\* DB_DIR without its three files
NoGeo == [db \in {CITY_DB, ASN_DB, COUNTRY_DB} |-> None]

----------------------------------------------------------------------------
(* classify_device: src/src/ReadProcess.py *)

\* one character of str.lower()
LowerChar(c) ==
    CASE c = "A" -> "a" [] c = "B" -> "b" [] c = "C" -> "c" [] c = "D" -> "d"
      [] c = "E" -> "e" [] c = "F" -> "f" [] c = "G" -> "g" [] c = "H" -> "h"
      [] c = "I" -> "i" [] c = "J" -> "j" [] c = "K" -> "k" [] c = "L" -> "l"
      [] c = "M" -> "m" [] c = "N" -> "n" [] c = "O" -> "o" [] c = "P" -> "p"
      [] c = "Q" -> "q" [] c = "R" -> "r" [] c = "S" -> "s" [] c = "T" -> "t"
      [] c = "U" -> "u" [] c = "V" -> "v" [] c = "W" -> "w" [] c = "X" -> "x"
      [] c = "Y" -> "y" [] c = "Z" -> "z" [] OTHER -> c

lower(s) == [i \in 1..Len(s) |-> LowerChar(s[i])]

\* Python's `sub in s` for strings
contains(sub, s) ==
    \E i \in 0..(Len(s) - Len(sub)) : SubSeq(s, i + 1, i + Len(sub)) = sub

W_android == <<"a", "n", "d", "r", "o", "i", "d">>
W_ios == <<"i", "o", "s">>
W_windows == <<"w", "i", "n", "d", "o", "w", "s">>
W_mac == <<"m", "a", "c">>
W_web == <<"w", "e", "b">>

\* a bug: the web rule tested before the desktop rule
classify_device_WebFirst(p) ==
    IF isna(p) THEN "unknown"
    ELSE LET s == lower(Val(p)) IN
         IF contains(W_android, s) \/ contains(W_ios, s) THEN "mobile"
         ELSE IF contains(W_web, s) THEN "web"
         ELSE IF contains(W_windows, s) \/ contains(W_mac, s) THEN "desktop"
         ELSE "other"

classify_device(p) ==
    IF isna(p) THEN "unknown"
    ELSE LET s == lower(Val(p)) IN
         IF contains(W_android, s) \/ contains(W_ios, s) THEN "mobile"
         ELSE IF contains(W_windows, s) \/ contains(W_mac, s) THEN "desktop"
         ELSE IF contains(W_web, s) THEN "web"
         ELSE "other"

----------------------------------------------------------------------------
(* Timestamps.  A timestamp is [year, month, day, hour, minute]. *)

\* ts.dt.strftime("%Y%m%d%H"): the ten digits YYYYMMDDHH, read as a number
\* (the fields are zero-padded to a fixed width, so the digits and the
\* number determine each other); NaT gives NaN
strftime_YmdH(ts) ==
    IF isna(ts) THEN None
    ELSE Some(Val(ts).year * 1000000 + Val(ts).month * 10000
              + Val(ts).day * 100 + Val(ts).hour)

MonthOffset == <<0, 3, 2, 5, 0, 3, 5, 1, 4, 6, 2, 4>>
DayNames ==
    <<"Sunday", "Monday", "Tuesday", "Wednesday", "Thursday", "Friday", "Saturday">>

\* ts.dt.day_name(): the weekday of the Gregorian date
day_name(ts) ==
    IF isna(ts) THEN None
    ELSE LET t == Val(ts)
             y == IF t.month < 3 THEN t.year - 1 ELSE t.year
             w == (y + (y \div 4) - (y \div 100) + (y \div 400)
                   + MonthOffset[t.month] + t.day) % 7
         IN  Some(DayNames[w + 1])

\* ts.dt.<field>
dt(ts, field) == IF isna(ts) THEN None ELSE Some(Val(ts)[field])

----------------------------------------------------------------------------
(* DataFrame operations used by the pipeline *)

RECURSIVE Pick(_, _, _)
Pick(rows, keep, i) ==
    IF i > Len(rows) THEN <<>>
    ELSE (IF i \in keep THEN <<rows[i]>> ELSE <<>>) \o Pick(rows, keep, i + 1)

\* df[mask]: the rows satisfying P, in order
Filter(rows, P(_)) == Pick(rows, {i \in 1..Len(rows) : P(rows[i])}, 1)

\* df.drop_duplicates(subset=[subset]).reset_index(drop=True): the first row
\* of each key value, in order; missing keys are equal to each other
drop_duplicates(rows, subset) ==
    Pick(rows,
         {i \in 1..Len(rows) :
             \A j \in 1..(i - 1) : rows[j][subset] # rows[i][subset]},
         1)

\* a bug: the rows are numbered from 1
with_index_FromOne(rows, col) ==
    [i \in 1..Len(rows) |-> (col :> Some(i)) @@ rows[i]]

\* df[col] = df.index
with_index(rows, col) ==
    [i \in 1..Len(rows) |-> (col :> Some(i - 1)) @@ rows[i]]

\* left.merge(right, on=on, how="left"), right not empty: every left row,
\* in order, once per right row with an equal key (a missing key matches a
\* missing key), or once with the right columns missing
merge(left, right, on) ==
    Concat([i \in 1..Len(left) |->
        LET m == Filter(right, LAMBDA r : r[on] = left[i][on])
        IN  IF m = <<>>
            THEN <<left[i] @@ [c \in DOMAIN right[1] \ {on} |-> None]>>
            ELSE [k \in 1..Len(m) |->
                    left[i] @@ [c \in DOMAIN m[k] \ {on} |-> m[k][c]]]])

\* series.fillna(v)
fillna(c, v) == IF isna(c) THEN Some(v) ELSE c

----------------------------------------------------------------------------
(* Dimension builders and the fact table: src/src/ReadProcess.py *)

create_dim_date(d) ==
    LET temp == Map(d, LAMBDA r :
                    [date_id |-> strftime_YmdH(r.ts),
                     year    |-> dt(r.ts, "year"),
                     month   |-> dt(r.ts, "month"),
                     day     |-> dt(r.ts, "day"),
                     weekday |-> day_name(r.ts),
                     hour    |-> dt(r.ts, "hour")])
    IN  drop_duplicates(temp, "date_id")

device_unknown ==
    [platform |-> Some(UNKNOWN_VALUE), device_type |-> Some("unknown"),
     device_id |-> Some(UNKNOWN_ID)]

create_dim_device(d) ==
    LET temp == Map(d, LAMBDA r :
                    [platform |-> r.platform,
                     device_type |-> Some(classify_device(r.platform))])
        dim_device == with_index(drop_duplicates(temp, "platform"), "device_id")
    IN  <<device_unknown>> \o dim_device

track_unknown ==
    [spotify_track_uri |-> Some(UNKNOWN_VALUE),
     track_name |-> Some("Non-Music Content"),
     artist_name |-> Some("N/A"), album_name |-> Some("N/A"),
     track_id |-> Some(UNKNOWN_ID)]

create_dim_track(d) ==
    LET music_df == Filter(d, LAMBDA r : notna(r.spotify_track_uri))
        cols == Project(music_df,
                    {"spotify_track_uri", "master_metadata_track_name",
                     "master_metadata_album_artist_name",
                     "master_metadata_album_album_name"})
        renamed ==
            Rename(Rename(Rename(drop_duplicates(cols, "spotify_track_uri"),
                "master_metadata_track_name", "track_name"),
                "master_metadata_album_artist_name", "artist_name"),
                "master_metadata_album_album_name", "album_name")
    IN  <<track_unknown>> \o with_index(renamed, "track_id")

episode_unknown ==
    [spotify_episode_uri |-> Some(UNKNOWN_VALUE),
     episode_name |-> Some("Non-Podcast Content"),
     show_name |-> Some("N/A"), episode_id |-> Some(UNKNOWN_ID)]

create_dim_episode(d) ==
    LET podcast_df == Filter(d, LAMBDA r : notna(r.spotify_episode_uri))
        cols == Project(podcast_df,
                    {"spotify_episode_uri", "episode_name", "episode_show_name"})
        renamed == Rename(drop_duplicates(cols, "spotify_episode_uri"),
                          "episode_show_name", "show_name")
    IN  <<episode_unknown>> \o with_index(renamed, "episode_id")

location_unknown ==
    [ip_addr |-> Some("0.0.0.0"), conn_country |-> Some("XX"),
     location_id |-> Some(UNKNOWN_ID)]

create_dim_location(d) ==
    LET cols == Project(d, {"ip_addr", "conn_country"})
    IN  <<location_unknown>>
        \o with_index(drop_duplicates(cols, "ip_addr"), "location_id")

\* pd.to_numeric(col, errors="coerce").fillna(0).astype(bool) on a flag
to_bool(c) ==
    LET numeric == IF c = Some(TRUE) THEN Some(1)
                   ELSE IF c = Some(FALSE) THEN Some(0)
                   ELSE None
    IN  Some(Val(fillna(numeric, 0)) # 0)

FactColumns ==
    {"event_id", "date_id", "track_id", "episode_id", "device_id", "location_id",
     "ms_played", "skipped", "shuffle", "offline", "incognito_mode"}

create_fact_table(d) ==
    LET temp == Map(d, LAMBDA r : ("date_id" :> strftime_YmdH(r.ts)) @@ r)
        fact == Project(temp, FactColumns)
    IN  Map(fact, LAMBDA r :
            [r EXCEPT !.track_id = fillna(@, UNKNOWN_ID),
                      !.episode_id = fillna(@, UNKNOWN_ID),
                      !.device_id = fillna(@, UNKNOWN_ID),
                      !.location_id = fillna(@, UNKNOWN_ID),
                      !.skipped = to_bool(@),
                      !.shuffle = to_bool(@),
                      !.offline = to_bool(@),
                      !.incognito_mode = to_bool(@)])

\* clean_data: drop the audiobook columns when they are all missing, then
\* number the rows
clean_data(d) ==
    LET all_null == \A i \in 1..Len(d) : \A c \in AUDIOBOOK_COLUMNS : isna(d[i][c])
        kept == IF all_null
                THEN Map(d, LAMBDA r : [c \in DOMAIN r \ AUDIOBOOK_COLUMNS |-> r[c]])
                ELSE d
    IN  with_index(kept, "event_id")

----------------------------------------------------------------------------
(* Inputs: the export's event records *)

TS(y, mo, d, h, mi) == Some([year |-> y, month |-> mo, day |-> d, hour |-> h, minute |-> mi])

P_iOS == <<"i", "O", "S">>
P_web == <<"w", "e", "b", "_", "p", "l", "a", "y", "e", "r">>
URI_t1 == <<"t", "1">>
URI_e1 == <<"e", "1">>

Event(ts, plat, track, tname, episode, ip, country, skipped, audiobook) ==
    [ts |-> ts, platform |-> plat,
     spotify_track_uri |-> track,
     master_metadata_track_name |-> tname,
     master_metadata_album_artist_name |-> IF isna(track) THEN None ELSE Some("Artist"),
     master_metadata_album_album_name |-> IF isna(track) THEN None ELSE Some("Album"),
     spotify_episode_uri |-> episode,
     episode_name |-> IF isna(episode) THEN None ELSE Some("Episode"),
     episode_show_name |-> IF isna(episode) THEN None ELSE Some("Show"),
     ip_addr |-> ip, conn_country |-> country,
     ms_played |-> Some(1000),
     skipped |-> skipped, shuffle |-> Some(FALSE), offline |-> Some(FALSE),
     incognito_mode |-> None,
     audiobook_title |-> audiobook]

\* a song
E_song ==
    Event(TS(2024, 1, 15, 10, 5), Some(P_iOS), Some(URI_t1), Some("A"), None,
          Some("8.8.8.8"), Some("US"), Some(FALSE), None)
\* the same song, device and address in the same hour, described differently
E_song2 ==
    Event(TS(2024, 1, 15, 10, 40), Some(P_iOS), Some(URI_t1), Some("B"), None,
          Some("8.8.8.8"), Some("DE"), Some(TRUE), None)
\* a podcast episode from a private address
E_podcast ==
    Event(TS(2024, 3, 2, 23, 0), Some(P_web), None, None, Some(URI_e1),
          Some("10.0.0.1"), Some("US"), None, None)
\* an event with every optional field missing
E_missing ==
    Event(None, None, None, None, None, None, None, None, None)
\* an event whose values are the sentinels' natural keys
E_sentinel ==
    Event(TS(2023, 12, 31, 0, 0), Some(UNKNOWN_VALUE), Some(UNKNOWN_VALUE),
          Some("C"), Some(UNKNOWN_VALUE), Some("0.0.0.0"), Some("XX"),
          Some(TRUE), Some("Book"))

EventPool == {E_song, E_song2, E_podcast, E_missing, E_sentinel}

\* a file of the input directory: readable JSON with its records, or not
File(records) == [json |-> TRUE, records |-> records]
Unreadable == [json |-> FALSE, records |-> <<>>]

JsonNames == {"a.json", "b.json"}
OtherNames == {"notes.txt"}

Dir(ra, rb) ==
    Some([n \in JsonNames \cup OtherNames |->
            IF n = "a.json" THEN File(ra)
            ELSE IF n = "b.json" THEN File(rb) ELSE File(<<>>)])

\* the directories: absent, without a JSON file, with an unreadable file,
\* with one file, or with two files; the files hold at most MaxEvents events
\* in all, and an empty file stands beside no event or beside one
Directories ==
    {None}
    \cup {Some([n \in N |-> File(<<>>)]) : N \in SUBSET OtherNames}
    \cup {Some([n \in {"a.json"} |-> Unreadable])}
    \cup {Some([n \in {"a.json"} |-> File(r)]) : r \in SeqsUpTo(EventPool, MaxEvents)}
    \cup {Dir(q[1], q[2]) :
            q \in {x \in SeqsUpTo(EventPool, MaxEvents) \X SeqsUpTo(EventPool, MaxEvents) :
                        /\ Len(x[1]) + Len(x[2]) <= MaxEvents
                        /\ \/ Len(x[1]) > 0 /\ Len(x[2]) > 0
                           \/ Len(x[1]) = 0 /\ Len(x[2]) <= 1}}

----------------------------------------------------------------------------
(* Stage 1: ReadProcess.main, one action per statement *)

RAW_DATA_DIR == "data/raw"

\* Path.resolve(): the absolute path of a path relative to the project root
resolve(path) == <<"/project", path>>

\* path.glob("*.json") on file names
is_json(name) == name \in JsonNames

Exception(type, text) == Some([type |-> type, text |-> text])

\* a bug: the message names the path as configured, not resolved
NotFoundMessage_Unresolved(prefix, path) == [prefix |-> prefix, path |-> <<path>>]

\* f"...: {path.resolve()}"
NotFoundMessage(prefix, path) == [prefix |-> prefix, path |-> resolve(path)]

NoDims ==
    [dim_date |-> None, dim_device |-> None, dim_track |-> None,
     dim_episode |-> None, dim_location |-> None]

EtlRaise(e) ==
    /\ epc' = "raised"
    /\ exc' = e
    /\ UNCHANGED <<df, dims, fact_table>>

\* extract_json_files(RAW_DATA_DIR)
ExtractJsonFiles ==
    /\ epc = "extract"
    /\ IF isna(raw)
       THEN EtlRaise(Exception("FileNotFoundError",
                               NotFoundMessage("No existe la ruta: ", RAW_DATA_DIR)))
       ELSE \E files \in Perms({n \in DOMAIN Val(raw) : is_json(n)}) :
              IF files = <<>>
              THEN EtlRaise(Exception("FileNotFoundError",
                        NotFoundMessage("No se encontraron JSON en: ", RAW_DATA_DIR)))
              ELSE IF \E i \in 1..Len(files) : ~Val(raw)[files[i]].json
              THEN EtlRaise(Exception("ValueError", "read_json"))
              ELSE /\ df' = Concat([i \in 1..Len(files) |-> Val(raw)[files[i]].records])
                   /\ epc' = "clean"
                   /\ UNCHANGED <<dims, fact_table, exc>>
    /\ UNCHANGED <<raw, disk, geo, runs, enrichVars, mainVars, classifyVars>>

CleanData ==
    /\ epc = "clean"
    /\ df' = clean_data(df)
    /\ epc' = "dim_date"
    /\ UNCHANGED <<raw, disk, geo, dims, fact_table, exc, runs, enrichVars, mainVars,
                   classifyVars>>

\* a frame concatenated from files without records has no column "ts"
CreateDimDate ==
    /\ epc = "dim_date"
    /\ IF df = <<>>
       THEN EtlRaise(Exception("KeyError", "ts"))
       ELSE /\ dims' = [dims EXCEPT !.dim_date = Some(create_dim_date(df))]
            /\ epc' = "dim_device"
            /\ UNCHANGED <<df, fact_table, exc>>
    /\ UNCHANGED <<raw, disk, geo, runs, enrichVars, mainVars, classifyVars>>

CreateDimDevice ==
    /\ epc = "dim_device"
    /\ dims' = [dims EXCEPT !.dim_device = Some(create_dim_device(df))]
    /\ epc' = "dim_track"
    /\ UNCHANGED <<raw, disk, geo, df, fact_table, exc, runs, enrichVars, mainVars,
                   classifyVars>>

CreateDimTrack ==
    /\ epc = "dim_track"
    /\ dims' = [dims EXCEPT !.dim_track = Some(create_dim_track(df))]
    /\ epc' = "dim_episode"
    /\ UNCHANGED <<raw, disk, geo, df, fact_table, exc, runs, enrichVars, mainVars,
                   classifyVars>>

CreateDimEpisode ==
    /\ epc = "dim_episode"
    /\ dims' = [dims EXCEPT !.dim_episode = Some(create_dim_episode(df))]
    /\ epc' = "dim_location"
    /\ UNCHANGED <<raw, disk, geo, df, fact_table, exc, runs, enrichVars, mainVars,
                   classifyVars>>

CreateDimLocation ==
    /\ epc = "dim_location"
    /\ dims' = [dims EXCEPT !.dim_location = Some(create_dim_location(df))]
    /\ epc' = "merge_device"
    /\ UNCHANGED <<raw, disk, geo, df, fact_table, exc, runs, enrichVars, mainVars,
                   classifyVars>>

\* df = df.merge(dim[[key, id]], on=key, how="left")
MergeStep(at, dim, key, id, next) ==
    /\ epc = at
    /\ df' = merge(df, Project(Val(dims[dim]), {key, id}), key)
    /\ epc' = next
    /\ UNCHANGED <<raw, disk, geo, dims, fact_table, exc, runs, enrichVars, mainVars,
                   classifyVars>>

MergeDevice == MergeStep("merge_device", "dim_device", "platform", "device_id", "merge_track")
MergeTrack ==
    MergeStep("merge_track", "dim_track", "spotify_track_uri", "track_id", "merge_episode")
MergeEpisode ==
    MergeStep("merge_episode", "dim_episode", "spotify_episode_uri", "episode_id",
              "merge_location")
MergeLocation == MergeStep("merge_location", "dim_location", "ip_addr", "location_id", "fact")

CreateFactTable ==
    /\ epc = "fact"
    /\ fact_table' = Some(create_fact_table(df))
    /\ epc' = "save_1"
    /\ UNCHANGED <<raw, disk, geo, df, dims, exc, runs, enrichVars, mainVars, classifyVars>>

SavePc == <<"save_1", "save_2", "save_3", "save_4", "save_5", "save_6">>

\* the table main() passes to its k-th save_to_parquet
SavedTable(k) ==
    IF k = 6 THEN fact_table
    ELSE dims[<<"dim_date", "dim_device", "dim_track", "dim_episode", "dim_location">>[k]]

\* save_to_parquet(table, file): the file is overwritten, or the write
\* fails, the file is left as it was and the exception is raised again
SaveToParquet ==
    \E k \in 1..6 :
        /\ epc = SavePc[k]
        /\ \/ /\ disk' = [disk EXCEPT ![Stage1Files[k]] = SavedTable(k)]
              /\ epc' = IF k = 6 THEN "returned" ELSE SavePc[k + 1]
              /\ UNCHANGED <<df, dims, fact_table, exc>>
           \/ /\ EtlRaise(Exception("OSError", Stage1Files[k]))
              /\ UNCHANGED disk
        /\ UNCHANGED <<raw, geo, runs, enrichVars, mainVars, classifyVars>>

\* python ReadProcess.py: the module's  if __name__ == "__main__": main()
EtlScript ==
    /\ mpc = "none"
    /\ epc \in {"idle", "returned", "raised"}
    /\ runs < MaxRuns
    /\ runs' = runs + 1
    /\ epc' = "extract"
    /\ df' = <<>>
    /\ dims' = NoDims
    /\ fact_table' = None
    /\ exc' = None
    /\ UNCHANGED <<raw, disk, geo, enrichVars, mainVars, classifyVars>>

EtlStep ==
    \/ ExtractJsonFiles
    \/ CleanData
    \/ CreateDimDate
    \/ CreateDimDevice
    \/ CreateDimTrack
    \/ CreateDimEpisode
    \/ CreateDimLocation
    \/ MergeDevice
    \/ MergeTrack
    \/ MergeEpisode
    \/ MergeLocation
    \/ CreateFactTable
    \/ SaveToParquet

NoDisk == [a \in Artifacts |-> None]

\* enrich_location_dimension's locals before it runs
NoLocals ==
    [dim_location |-> <<>>, ips_unicas |-> <<>>, geo_data |-> <<>>, i |-> 1,
     open |-> {}, opened |-> <<>>, dim_enriched |-> <<>>]

InitEtl ==
    /\ raw \in Directories
    /\ disk = NoDisk
    /\ geo = NoGeo
    /\ epc = "idle"
    /\ df = <<>>
    /\ dims = NoDims
    /\ fact_table = None
    /\ exc = None
    /\ runs = 0
    /\ lpc = "idle"
    /\ loc = NoLocals
    /\ mpc = "none"
    /\ log = <<>>
    /\ platform = None
    /\ device_type = "unknown"

\* between two runs the user may delete the export: the directory, or the
\* JSON files in it
RemoveInput ==
    /\ \/ mpc = "none" /\ epc \in {"returned", "raised"}
       \/ mpc \in {"done", "exit_1"}
    /\ notna(raw)
    /\ \E n \in DOMAIN Val(raw) : is_json(n)
    /\ raw' \in {None, Some([n \in {m \in DOMAIN Val(raw) : ~is_json(m)} |-> Val(raw)[n]])}
    /\ UNCHANGED <<disk, geo, etlVars, exc, runs, enrichVars, mainVars, classifyVars>>

NextEtl == EtlScript \/ EtlStep \/ RemoveInput

\* stage 1 run as a script, up to MaxRuns times over the same directories
SpecEtl == InitEtl /\ [][NextEtl]_vars

----------------------------------------------------------------------------
(* Properties of stage 1, under SpecEtl *)

RECURSIVE SumLen(_, _)
SumLen(dir, names) ==
    IF names = {} THEN 0
    ELSE LET n == CHOOSE m \in names : TRUE
         IN  Len(dir[n].records) + SumLen(dir, names \ {n})

\* the rows of the cleaned dataset: the records of the directory's JSON files
InputRows ==
    IF isna(raw) THEN 0 ELSE SumLen(Val(raw), {n \in DOMAIN Val(raw) : is_json(n)})

\* main() has built its fact table and is saving: the directory is the one
\* this run read
FactBuilt == epc \in Range(SavePc)

Count(rows, P(_)) == Cardinality({i \in 1..Len(rows) : P(rows[i])})

\* C1: the fact table has as many rows as the cleaned dataset, and every
\* event_id of the cleaned dataset occurs in it exactly once, for every
\* input, the ones that use a sentinel's natural key included.
C1_FactRowsOneToOne ==
    FactBuilt =>
        /\ Len(Val(fact_table)) = InputRows
        /\ \A e \in 0..(InputRows - 1) :
                Count(Val(fact_table), LAMBDA r : r.event_id = Some(e)) = 1

NaturalKey ==
    [dim_date |-> "date_id", dim_device |-> "platform",
     dim_track |-> "spotify_track_uri", dim_episode |-> "spotify_episode_uri",
     dim_location |-> "ip_addr"]
SurrogateKey ==
    [dim_date |-> "date_id", dim_device |-> "device_id", dim_track |-> "track_id",
     dim_episode |-> "episode_id", dim_location |-> "location_id"]
DimNames == DOMAIN NaturalKey

KeysDistinct(rows, key) ==
    \A i, j \in 1..Len(rows) : rows[i][key] = rows[j][key] => i = j

\* C2: in each of the five dimension tables the natural keys are pairwise
\* distinct and exactly one row has surrogate key -1.
C2_DimensionKeys ==
    \A d \in DimNames :
        notna(dims[d]) =>
            /\ KeysDistinct(Val(dims[d]), NaturalKey[d])
            /\ Count(Val(dims[d]), LAMBDA r : r[SurrogateKey[d]] = Some(UNKNOWN_ID)) = 1

\* C3: every foreign key of every fact row is -1 or the key of a row of its
\* dimension table, and is never missing.
C3_ReferentialIntegrity ==
    FactBuilt =>
        \A i \in 1..Len(Val(fact_table)) :
            \A d \in DimNames :
                LET fk == Val(fact_table)[i][SurrogateKey[d]]
                IN  /\ notna(fk)
                    /\ \/ fk = Some(UNKNOWN_ID)
                       \/ \E r \in Range(Val(dims[d])) : r[SurrogateKey[d]] = fk

\* the keys the dimension gives to a natural-key value
KeysOf(d, value) ==
    {r[SurrogateKey[d]] : r \in {x \in Range(Val(dims[d])) : x[NaturalKey[d]] = value}}

\* the fact rows of the event of row r of the merged frame carry, for
\* dimension d, -1 when the event's natural key is missing and else the key
\* of the one row of the dimension with that natural key
ResolvesTo(r, d) ==
    \A f \in Range(Val(fact_table)) :
        f.event_id = r.event_id =>
            IF isna(r[NaturalKey[d]])
            THEN f[SurrogateKey[d]] = Some(UNKNOWN_ID)
            ELSE KeysOf(d, r[NaturalKey[d]]) = {f[SurrogateKey[d]]}

\* C4: an event's track_id is -1 when its track URI is missing and else the
\* key of the unique dim_track row with that URI; the same for episode_id.
C4_TrackEpisodeResolution ==
    FactBuilt =>
        \A r \in Range(df) : ResolvesTo(r, "dim_track") /\ ResolvesTo(r, "dim_episode")

NoJsonInput == isna(raw) \/ \A n \in DOMAIN Val(raw) : ~is_json(n)

\* C9: when the input directory is absent or holds no *.json file,
\* extract_json_files raises FileNotFoundError with the resolved path in
\* its message, no dimension is built and no stage-1 table is written.
C9_MissingInputStopsStage1 ==
    [][(epc = "extract" /\ NoJsonInput) =>
          /\ epc' = "raised"
          /\ notna(exc')
          /\ Val(exc').type = "FileNotFoundError"
          /\ Val(exc').text.path = resolve(RAW_DATA_DIR)
          /\ dims' = NoDims
          /\ fact_table' = None
          /\ disk' = disk]_vars

\* a run found the input gone and left the tables of the run before it
C9_Witness ==
    /\ epc = "raised"
    /\ notna(exc) /\ Val(exc).type = "FileNotFoundError"
    /\ NoJsonInput
    /\ notna(disk[FACT_TABLE_FILE])
    /\ Len(Val(disk[FACT_TABLE_FILE])) > 0

\* a dimension's rows without their surrogate keys, as a set
Content(d, rows) ==
    IF d = "dim_date" THEN Range(rows)
    ELSE {[c \in DOMAIN r \ {SurrogateKey[d]} |-> r[c]] : r \in Range(rows)}

\* C10: a second run of stage 1 over the same files, read in any order,
\* builds dimensions with the same (natural key, attributes) rows as the
\* tables the first run saved.
C10_RerunSameDimensions ==
    (runs = 2 /\ epc = "save_1") =>
        \A k \in 1..5 :
            LET d == Stage1Files[k]
            IN  notna(disk[d]) => Content(d, Val(disk[d])) = Content(d, Val(dims[d]))

\* the dimensions that carry a sentinel row, and the row
Sentinel ==
    [dim_device |-> device_unknown, dim_track |-> track_unknown,
     dim_episode |-> episode_unknown, dim_location |-> location_unknown]

\* the position in the cleaned dataset of the first event with this value
\* of the natural key (0 when there is none)
FirstSeen(key, value) ==
    LET at == {i \in 1..Len(df) : df[i][key] = value}
    IN  IF at = {} THEN 0 ELSE CHOOSE i \in at : \A j \in at : i <= j

\* main() has built its five dimensions and df is still the cleaned dataset
DimensionsBuilt == epc = "merge_device"

\* C12: in dim_device, dim_track, dim_episode and dim_location the first
\* row is the sentinel, the only row with key -1; the n rows after it carry
\* the keys 0..n-1 in this order, one row for each natural key of the
\* cleaned dataset, in the order in which the keys first occur in it.
C12_DenseKeysInFirstSeenOrder ==
    DimensionsBuilt =>
        \A d \in DOMAIN Sentinel :
            LET rows == Val(dims[d])
                nk == NaturalKey[d]
                sk == SurrogateKey[d]
            IN  /\ Len(rows) >= 1
                /\ rows[1] = Sentinel[d]
                /\ \A i \in 2..Len(rows) :
                        /\ rows[i][sk] = Some(i - 2)
                        /\ FirstSeen(nk, rows[i][nk]) > 0
                /\ \A i, j \in 2..Len(rows) :
                        i < j => FirstSeen(nk, rows[i][nk]) < FirstSeen(nk, rows[j][nk])
                /\ \A e \in 1..Len(df) :
                        notna(df[e][nk]) => \E i \in 2..Len(rows) : rows[i][nk] = df[e][nk]

\* two events from different addresses, the private one first: dim_location
\* has the sentinel and two real rows, keyed 0 and 1 in the order of the
\* events, and dim_episode one real row
C12_Witness ==
    /\ DimensionsBuilt
    /\ Len(df) = 2
    /\ df[1].ip_addr = Some("10.0.0.1")
    /\ df[2].ip_addr = Some("8.8.8.8")
    /\ Len(Val(dims.dim_location)) = 3
    /\ Val(dims.dim_location)[2].ip_addr = Some("10.0.0.1")
    /\ Val(dims.dim_location)[2].location_id = Some(0)
    /\ Val(dims.dim_location)[3].location_id = Some(1)
    /\ Len(Val(dims.dim_episode)) = 2

----------------------------------------------------------------------------
(* classify_device and create_dim_device over platform strings *)

Fragments ==
    {<<"A", "n", "d", "r", "o", "i", "d">>, <<"i", "O", "S">>,
     <<"W", "I", "N", "D", "O", "W", "S">>, <<"M", "a", "c">>, <<"w", "e", "b">>,
     <<"w">>, <<"e", "b">>, <<"t", "v">>, <<" ">>}

\* the platform strings: up to MaxFragments fragments, concatenated
PlatformStrings == {Concat(w) : w \in SeqsUpTo(Fragments, MaxFragments)}
PlatformValues == {None} \cup {Some(w) : w \in PlatformStrings}

\* the cleaned dataset of events with the platforms ps
PlatformFrame(ps) ==
    clean_data([i \in 1..Len(ps) |-> [E_song EXCEPT !.platform = ps[i]]])

\* a call of classify_device on a value of the platform column
ClassifyDevice ==
    /\ epc \in {"dim_device", "dim_track"}
    /\ \E i \in 1..Len(df) :
        /\ platform' = df[i].platform
        /\ device_type' = classify_device(df[i].platform)
    /\ UNCHANGED <<raw, disk, geo, etlVars, exc, runs, enrichVars, mainVars>>

\* main() about to build dim_device from a dataset with one or two platforms
InitClassify ==
    /\ \E p \in PlatformValues :
        \E q \in {<<>>, <<None>>, <<Some(P_iOS)>>, <<p>>} :
            df = PlatformFrame(<<p>> \o q)
    /\ dims = [NoDims EXCEPT !.dim_date = Some(create_dim_date(df))]
    /\ epc = "dim_device"
    /\ raw = None
    /\ disk = NoDisk
    /\ geo = NoGeo
    /\ fact_table = None
    /\ exc = None
    /\ runs = 1
    /\ lpc = "idle"
    /\ loc = NoLocals
    /\ mpc = "none"
    /\ log = <<>>
    /\ platform = None
    /\ device_type = ""

NextClassify == ClassifyDevice \/ CreateDimDevice

SpecClassify == InitClassify /\ [][NextClassify]_vars

Categories == {"mobile", "desktop", "web", "other", "unknown"}

\* the rules of the classification, each with the rules before it excluded
RuleCategory(p) ==
    LET s == lower(Val(p))
        mobile == contains(W_android, s) \/ contains(W_ios, s)
        desktop == contains(W_windows, s) \/ contains(W_mac, s)
        web == contains(W_web, s)
    IN  {c \in Categories :
            \/ c = "unknown" /\ isna(p)
            \/ c = "mobile" /\ notna(p) /\ mobile
            \/ c = "desktop" /\ notna(p) /\ ~mobile /\ desktop
            \/ c = "web" /\ notna(p) /\ ~mobile /\ ~desktop /\ web
            \/ c = "other" /\ notna(p) /\ ~mobile /\ ~desktop /\ ~web}

Classified == device_type # ""

ClassificationRules ==
    /\ Classified => RuleCategory(platform) = {device_type}
    /\ notna(dims.dim_device) =>
         \A r \in Range(Val(dims.dim_device)) :
            (Classified /\ r.platform = platform /\ r.device_id # Some(UNKNOWN_ID))
                => r.device_type = Some(device_type)

\* C5 as claimed: classify_device returns the category of the first
\* matching rule, the same for the same platform, and every row of
\* dim_device carries the classification of its platform.
C5_EveryRowClassified ==
    /\ ClassificationRules
    /\ notna(dims.dim_device) =>
         \A r \in Range(Val(dims.dim_device)) :
            RuleCategory(r.platform) = {Val(r.device_type)}

\* C5 amended: ... and every row of dim_device but the sentinel row carries
\* the classification of its platform; the sentinel row pairs the platform
\* "Unknown" with the category "unknown".
C5_RealRowsClassified ==
    /\ ClassificationRules
    /\ notna(dims.dim_device) =>
         \A r \in Range(Val(dims.dim_device)) :
            IF r.device_id = Some(UNKNOWN_ID)
            THEN r.platform = Some(UNKNOWN_VALUE) /\ r.device_type = Some("unknown")
            ELSE RuleCategory(r.platform) = {Val(r.device_type)}

\* a platform naming both the web and a desktop system, classified desktop,
\* beside the rows of dim_device
C5_Witness ==
    /\ notna(dims.dim_device)
    /\ device_type = "desktop"
    /\ contains(W_web, lower(Val(platform)))
    /\ \E r \in Range(Val(dims.dim_device)) :
        r.platform = platform /\ r.device_type = Some("desktop")

----------------------------------------------------------------------------
(* Stage 2: enrich_location_dimension, src/src/localization.py *)

\* main() of stage 1 as one function of the concatenated records: the six
\* tables it saves
etl_tables(records) ==
    LET d0 == clean_data(records)
        dim_date == create_dim_date(d0)
        dim_device == create_dim_device(d0)
        dim_track == create_dim_track(d0)
        dim_episode == create_dim_episode(d0)
        dim_location == create_dim_location(d0)
        d1 == merge(d0, Project(dim_device, {"platform", "device_id"}), "platform")
        d2 == merge(d1, Project(dim_track, {"spotify_track_uri", "track_id"}),
                    "spotify_track_uri")
        d3 == merge(d2, Project(dim_episode, {"spotify_episode_uri", "episode_id"}),
                    "spotify_episode_uri")
        d4 == merge(d3, Project(dim_location, {"ip_addr", "location_id"}), "ip_addr")
    IN  [a \in Artifacts |->
            IF a = DIM_DATE_FILE THEN Some(dim_date)
            ELSE IF a = DIM_DEVICE_FILE THEN Some(dim_device)
            ELSE IF a = DIM_TRACK_FILE THEN Some(dim_track)
            ELSE IF a = DIM_EPISODE_FILE THEN Some(dim_episode)
            ELSE IF a = DIM_LOCATION_FILE THEN Some(dim_location)
            ELSE IF a = FACT_TABLE_FILE THEN Some(create_fact_table(d4))
            ELSE None]

Databases == <<CITY_DB, ASN_DB, COUNTRY_DB>>

\* what the three databases hold for one address
FullCity ==
    [city |-> Some("Paris"), region |-> Some("IDF"), latitude |-> Some(48),
     longitude |-> Some(2)]
Profiles ==
    {[city |-> Some(FullCity), asn |-> Some([isp |-> Some("ISP")]),
      country |-> Some([country |-> Some("France")])],
     [city |-> Some([FullCity EXCEPT !.city = None]), asn |-> Some([isp |-> Some("ISP")]),
      country |-> Some([country |-> Some("France")])],
     [city |-> Some([city |-> None, region |-> None, latitude |-> None,
                     longitude |-> None]),
      asn |-> Some([isp |-> None]), country |-> Some([country |-> None])],
     [city |-> None, asn |-> Some([isp |-> Some("ISP")]),
      country |-> Some([country |-> Some("France")])],
     [city |-> Some(FullCity), asn |-> None, country |-> Some([country |-> Some("France")])],
     [city |-> Some(FullCity), asn |-> Some([isp |-> Some("ISP")]), country |-> None],
     [city |-> None, asn |-> None, country |-> None]}

LookupAddresses == {"8.8.8.8", "10.0.0.1"}

\* the database file of one kind built from the addresses' profiles
Table(kind, prof) ==
    LET held == {a \in LookupAddresses : notna(prof[a][kind])}
    IN  Some([a \in held |-> Val(prof[a][kind])])

\* DB_DIR: the three files, each None (absent) or Some(address -> record)
GeoDirs ==
    {[db \in Range(Databases) |->
        IF db = CITY_DB THEN Table("city", prof)
        ELSE IF db = ASN_DB THEN Table("asn", prof)
        ELSE Table("country", prof)] : prof \in [LookupAddresses -> Profiles]}
GeoDirsMissing ==
    {[g EXCEPT ![db] = None] :
        g \in {x \in GeoDirs : \A a \in LookupAddresses : \A d \in Range(Databases) :
                                    a \in DOMAIN Val(x[d])},
        db \in Range(Databases)}

PLACEHOLDER_IPS == {"0.0.0.0", "unknown", "Unknown"}

\* series.unique(): the distinct values in order of first occurrence
unique(s) == Pick(s, {i \in 1..Len(s) : \A j \in 1..(i - 1) : s[j] # s[i]}, 1)

\* dim_location[~dim_location['ip_addr'].isin([...])]['ip_addr'].unique()
ips_unicas(dim_location) ==
    unique(Map(Filter(dim_location,
                      LAMBDA r : ~(notna(r.ip_addr) /\ Val(r.ip_addr) \in PLACEHOLDER_IPS)),
               LAMBDA r : r.ip_addr))

\* reader.city(ip) / .asn(ip) / .country(ip): the record, or None when the
\* call raises (the address is not in the database, or is no address)
lookup(db, ip) ==
    IF notna(ip) /\ Val(ip) \in DOMAIN Val(geo[db]) THEN Some(Val(geo[db])[Val(ip)])
    ELSE None

\* step 5: fillna on city, region, isp and on latitude, longitude
fill_defaults(rows) ==
    Map(rows, LAMBDA r :
        [r EXCEPT !.city = fillna(@, "Unknown"), !.region = fillna(@, "Unknown"),
                  !.isp = fillna(@, "Unknown"),
                  !.latitude = fillna(@, 0), !.longitude = fillna(@, 0)])

EnrichRaise(e) ==
    /\ lpc' = "raised"
    /\ exc' = e

\* steps 1 and 2: read the location dimension, list the addresses to look up
EnrichLoad ==
    /\ lpc = "load"
    /\ IF isna(disk[DIM_LOCATION_FILE])
       THEN /\ EnrichRaise(Exception("FileNotFoundError", DIM_LOCATION_FILE))
            /\ UNCHANGED loc
       ELSE /\ loc' = [NoLocals EXCEPT
                        !.dim_location = Val(disk[DIM_LOCATION_FILE]),
                        !.ips_unicas = ips_unicas(Val(disk[DIM_LOCATION_FILE]))]
            /\ lpc' = "open_1"
            /\ UNCHANGED exc
    /\ UNCHANGED <<raw, disk, geo, etlVars, runs, mainVars, classifyVars>>

OpenPc == <<"open_1", "open_2", "open_3">>

\* a bug: a reader that fails to open leaves the earlier readers open
OpenReader_Leak ==
    \E k \in 1..3 :
        /\ lpc = OpenPc[k]
        /\ IF isna(geo[Databases[k]])
           THEN /\ UNCHANGED loc
                /\ EnrichRaise(Exception("FileNotFoundError", Databases[k]))
           ELSE /\ loc' = [loc EXCEPT !.open = @ \cup {Databases[k]},
                                      !.opened = Append(@, Databases[k])]
                /\ lpc' = IF k = 3 THEN "lookup" ELSE OpenPc[k + 1]
                /\ UNCHANGED exc
        /\ UNCHANGED <<raw, disk, geo, etlVars, runs, mainVars, classifyVars>>

\* the with statement opens the next reader; when the file is absent the
\* readers already open are closed and FileNotFoundError is raised again
OpenReader ==
    \E k \in 1..3 :
        /\ lpc = OpenPc[k]
        /\ IF isna(geo[Databases[k]])
           THEN /\ loc' = [loc EXCEPT !.open = {}]
                /\ EnrichRaise(Exception("FileNotFoundError", Databases[k]))
           ELSE /\ loc' = [loc EXCEPT !.open = @ \cup {Databases[k]},
                                      !.opened = Append(@, Databases[k])]
                /\ lpc' = IF k = 3 THEN "lookup" ELSE OpenPc[k + 1]
                /\ UNCHANGED exc
        /\ UNCHANGED <<raw, disk, geo, etlVars, runs, mainVars, classifyVars>>

\* a bug: a lookup that raises ends the loop
LookupIp_Abort ==
    /\ lpc = "lookup"
    /\ loc.i <= Len(loc.ips_unicas)
    /\ LET ip == loc.ips_unicas[loc.i]
           res_city == lookup(CITY_DB, ip)
           res_asn == lookup(ASN_DB, ip)
           res_country == lookup(COUNTRY_DB, ip)
       IN  IF notna(res_city) /\ notna(res_asn) /\ notna(res_country)
           THEN /\ loc' = [loc EXCEPT
                        !.i = @ + 1,
                        !.geo_data = Append(@,
                            [ip_addr |-> ip,
                             city |-> Val(res_city).city,
                             country |-> Val(res_country).country,
                             region |-> Val(res_city).region,
                             latitude |-> Val(res_city).latitude,
                             longitude |-> Val(res_city).longitude,
                             isp |-> Val(res_asn).isp])]
                /\ UNCHANGED lpc
           ELSE /\ loc' = [loc EXCEPT !.open = {}]
                /\ lpc' = "merge"
    /\ UNCHANGED <<raw, disk, geo, etlVars, exc, runs, mainVars, classifyVars>>

\* one iteration of the loop: the three lookups of one address; when one of
\* them raises, the address is skipped
LookupIp ==
    /\ lpc = "lookup"
    /\ loc.i <= Len(loc.ips_unicas)
    /\ LET ip == loc.ips_unicas[loc.i]
           res_city == lookup(CITY_DB, ip)
           res_asn == lookup(ASN_DB, ip)
           res_country == lookup(COUNTRY_DB, ip)
       IN  IF notna(res_city) /\ notna(res_asn) /\ notna(res_country)
           THEN loc' = [loc EXCEPT
                    !.i = @ + 1,
                    !.geo_data = Append(@,
                        [ip_addr |-> ip,
                         city |-> Val(res_city).city,
                         country |-> Val(res_country).country,
                         region |-> Val(res_city).region,
                         latitude |-> Val(res_city).latitude,
                         longitude |-> Val(res_city).longitude,
                         isp |-> Val(res_asn).isp])]
           ELSE loc' = [loc EXCEPT !.i = @ + 1]
    /\ UNCHANGED <<raw, disk, geo, etlVars, exc, runs, lpc, mainVars, classifyVars>>

\* the loop is over: the with statement closes the three readers
CloseReaders ==
    /\ lpc = "lookup"
    /\ loc.i > Len(loc.ips_unicas)
    /\ loc' = [loc EXCEPT !.open = {}]
    /\ lpc' = "merge"
    /\ UNCHANGED <<raw, disk, geo, etlVars, exc, runs, mainVars, classifyVars>>

\* steps 4 and 5: the frame of an empty geo_data has no column ip_addr, and
\* the merge on it raises KeyError
EnrichMerge ==
    /\ lpc = "merge"
    /\ IF loc.geo_data = <<>>
       THEN /\ EnrichRaise(Exception("KeyError", "ip_addr"))
            /\ UNCHANGED loc
       ELSE /\ loc' = [loc EXCEPT !.dim_enriched =
                        fill_defaults(merge(loc.dim_location, loc.geo_data, "ip_addr"))]
            /\ lpc' = "write"
            /\ UNCHANGED exc
    /\ UNCHANGED <<raw, disk, geo, etlVars, runs, mainVars, classifyVars>>

\* a bug: the enriched table replaces the location dimension of stage 1
EnrichWrite_Overwrite ==
    /\ lpc = "write"
    /\ \/ /\ disk' = [disk EXCEPT ![DIM_LOCATION_FILE] = Some(loc.dim_enriched)]
          /\ lpc' = "returned"
          /\ UNCHANGED exc
       \/ /\ EnrichRaise(Exception("OSError", DIM_LOCATION_ENRICHED_FILE))
          /\ UNCHANGED disk
    /\ UNCHANGED <<raw, geo, etlVars, runs, loc, mainVars, classifyVars>>

\* step 6: the enriched table is written, or the write fails and the
\* exception is raised again
EnrichWrite ==
    /\ lpc = "write"
    /\ \/ /\ disk' = [disk EXCEPT ![DIM_LOCATION_ENRICHED_FILE] = Some(loc.dim_enriched)]
          /\ lpc' = "returned"
          /\ UNCHANGED exc
       \/ /\ EnrichRaise(Exception("OSError", DIM_LOCATION_ENRICHED_FILE))
          /\ UNCHANGED disk
    /\ UNCHANGED <<raw, geo, etlVars, runs, loc, mainVars, classifyVars>>

EnrichStep ==
    \/ EnrichLoad
    \/ OpenReader
    \/ LookupIp
    \/ CloseReaders
    \/ EnrichMerge
    \/ EnrichWrite

\* python localization.py: the module's  if __name__ == "__main__"  block
EnrichScript ==
    /\ mpc = "none"
    /\ lpc = "idle"
    /\ lpc' = "load"
    /\ loc' = NoLocals
    /\ exc' = None
    /\ UNCHANGED <<raw, disk, geo, etlVars, runs, mainVars, classifyVars>>

\* stage 1 has run on some records, or has not run; the databases hold
\* anything for the two addresses, or one of them is absent
InitEnrich ==
    /\ disk \in {NoDisk} \cup {etl_tables(r) : r \in SeqsUpTo(EventPool, MaxEvents) \ {<<>>}}
    /\ geo \in GeoDirs \cup GeoDirsMissing \cup {NoGeo}
    /\ raw = None
    /\ epc = "idle"
    /\ df = <<>>
    /\ dims = NoDims
    /\ fact_table = None
    /\ exc = None
    /\ runs = 0
    /\ lpc = "idle"
    /\ loc = NoLocals
    /\ mpc = "none"
    /\ log = <<>>
    /\ platform = None
    /\ device_type = ""

NextEnrich == EnrichScript \/ EnrichStep

SpecEnrich == InitEnrich /\ [][NextEnrich]_vars

----------------------------------------------------------------------------
(* Properties of stage 2, under SpecEnrich *)

\* the address was looked up and found in all three databases
Matched(ip) ==
    /\ notna(ip)
    /\ Val(ip) \notin PLACEHOLDER_IPS
    /\ \A db \in Range(Databases) : notna(geo[db]) /\ Val(ip) \in DOMAIN Val(geo[db])

Enriched == Val(disk[DIM_LOCATION_ENRICHED_FILE])

DefaultFields(r) ==
    /\ r.city = Some("Unknown") /\ r.region = Some("Unknown")
    /\ r.latitude = Some(0) /\ r.longitude = Some(0)

\* C6: for every persisted location dimension and every combination of
\* lookup outcomes, the case where no address at all is found included, the
\* enrichment gets past its merge and, when it completes, the rows of
\* matched addresses have non-default city, region and coordinates, and the
\* other rows have city = region = "Unknown" and latitude = longitude = 0.
C6_MatchedRowsNonDefault ==
    /\ ~(lpc = "raised" /\ exc = Exception("KeyError", "ip_addr"))
    /\ lpc = "returned" =>
        \A r \in Range(Enriched) :
            IF Matched(r.ip_addr)
            THEN /\ r.city # Some("Unknown") /\ r.region # Some("Unknown")
                 /\ r.latitude # Some(0) /\ r.longitude # Some(0)
            ELSE DefaultFields(r)

\* the columns the enrichment adds to the location dimension
EnrichmentText == {"city", "country", "region", "isp"}
EnrichmentCoordinates == {"latitude", "longitude"}

\* C11: in the persisted enriched table no column added by the enrichment
\* holds a null in any row, and the rows of addresses that were excluded or
\* not found carry "Unknown" in the text columns and 0 in the coordinates.
C11_NoNullEnrichmentColumn ==
    lpc = "returned" =>
        \A r \in Range(Enriched) :
            /\ \A c \in EnrichmentText \cup EnrichmentCoordinates : notna(r[c])
            /\ ~Matched(r.ip_addr) =>
                    /\ \A c \in EnrichmentText : r[c] = Some("Unknown")
                    /\ \A c \in EnrichmentCoordinates : r[c] = Some(0)

\* the addresses the loop has been through, and the ones in geo_data
Visited == SubSeq(loc.ips_unicas, 1, loc.i - 1)
LookedUp == [k \in 1..Len(loc.geo_data) |-> loc.geo_data[k].ip_addr]

\* C13: a lookup that fails for one address does not end the loop: the loop
\* goes through every distinct non-placeholder address of the location
\* dimension, the addresses in the enrichment table are the visited ones
\* found in all three databases, and the table the enrichment writes has
\* one row per row of the location dimension, in order, with ip_addr,
\* conn_country and location_id unchanged.
C13_LookupFailureSkipsOneAddress ==
    /\ lpc \in {"lookup", "merge", "write", "returned"} =>
            /\ \A r \in Range(loc.dim_location) :
                    (notna(r.ip_addr) /\ Val(r.ip_addr) \notin PLACEHOLDER_IPS)
                        => r.ip_addr \in Range(loc.ips_unicas)
            /\ LookedUp = Filter(Visited, Matched)
    /\ lpc \in {"merge", "write", "returned"} => Visited = loc.ips_unicas
    /\ lpc = "returned" =>
            /\ Len(Enriched) = Len(Val(disk[DIM_LOCATION_FILE]))
            /\ \A i \in 1..Len(Enriched) :
                    \A c \in {"ip_addr", "conn_country", "location_id"} :
                        Enriched[i][c] = Val(disk[DIM_LOCATION_FILE])[i][c]

\* a completed enrichment whose first address failed a lookup and whose
\* second address was found: one enrichment row, three rows written
C13_Witness ==
    /\ lpc = "returned"
    /\ Len(loc.ips_unicas) = 2
    /\ ~Matched(loc.ips_unicas[1])
    /\ Matched(loc.ips_unicas[2])
    /\ LookedUp = <<loc.ips_unicas[2]>>
    /\ Len(Enriched) = 3

\* C14: on every way out of enrich_location_dimension (return, or an
\* exception from a missing table, a missing database, the merge or the
\* write) and from the end of the loop on, every reader that was opened is
\* closed; a lookup that raises closes none and ends nothing; and no
\* reader is opened twice in one run.
C14_ReadersClosedOnExit ==
    /\ lpc \in {"merge", "write", "returned", "raised"} => loc.open = {}
    /\ lpc = "lookup" => loc.open = Range(Databases)
    /\ loc.open \subseteq Range(loc.opened)
    /\ \A i, j \in 1..Len(loc.opened) : loc.opened[i] = loc.opened[j] => i = j

\* the third database is absent: the two readers opened before it are
\* closed when FileNotFoundError leaves the function
C14_Witness ==
    /\ lpc = "raised"
    /\ exc = Exception("FileNotFoundError", COUNTRY_DB)
    /\ loc.opened = <<CITY_DB, ASN_DB>>
    /\ loc.open = {}

----------------------------------------------------------------------------
(* The orchestrator: src/main.py, and validate_data, src/src/validate.py *)

Logged(level, msg) == log' = Append(log, <<level, msg>>)

\* python main.py: a run of the pipeline, with a log of its own
MainScript ==
    /\ mpc \in {"start", "done", "exit_1"}
    /\ runs < MaxRuns
    /\ runs' = runs + 1
    /\ mpc' = "prevalidate"
    /\ log' = <<>>
    /\ epc' = "idle" /\ df' = <<>> /\ dims' = NoDims /\ fact_table' = None
    /\ lpc' = "idle" /\ loc' = NoLocals
    /\ exc' = None
    /\ UNCHANGED <<raw, disk, geo, classifyVars>>

\* validate_input_directory(RAW_DATA_DIR, "*.json")
validate_input_directory == notna(raw) /\ \E n \in DOMAIN Val(raw) : is_json(n)

\* the checks before step 1: the input directory, then the two output
\* directories, whose creation may fail
Prevalidate ==
    /\ mpc = "prevalidate"
    /\ IF ~validate_input_directory
       THEN Logged("ERROR", "Directorio de entrada no valido") /\ mpc' = "exit_1"
       ELSE \/ Logged("INFO", "Rutas validadas correctamente") /\ mpc' = "step1"
            \/ Logged("ERROR", "No se pudo crear directorio") /\ mpc' = "exit_1"
    /\ UNCHANGED <<raw, disk, geo, etlVars, exc, runs, enrichVars, classifyVars>>

Step1Call ==
    /\ mpc = "step1" /\ epc = "idle"
    /\ epc' = "extract"
    /\ UNCHANGED <<raw, disk, geo, df, dims, fact_table, exc, runs, enrichVars, mainVars,
                   classifyVars>>

Step1Return ==
    /\ mpc = "step1" /\ epc = "returned"
    /\ Logged("INFO", "ETL completado exitosamente")
    /\ mpc' = "step2"
    /\ UNCHANGED <<raw, disk, geo, etlVars, exc, runs, enrichVars, classifyVars>>

\* except Exception: logger.error(...); sys.exit(1)
Step1Except ==
    /\ mpc = "step1" /\ epc = "raised"
    /\ Logged("ERROR", "Error en ETL")
    /\ mpc' = "exit_1"
    /\ UNCHANGED <<raw, disk, geo, etlVars, exc, runs, enrichVars, classifyVars>>

Step2Call ==
    /\ mpc = "step2" /\ lpc = "idle"
    /\ lpc' = "load"
    /\ UNCHANGED <<raw, disk, geo, etlVars, exc, runs, loc, mainVars, classifyVars>>

Step2Return ==
    /\ mpc = "step2" /\ lpc = "returned"
    /\ Logged("INFO", "Enriquecimiento de geolocalizacion completado")
    /\ mpc' = "step3"
    /\ UNCHANGED <<raw, disk, geo, etlVars, exc, runs, enrichVars, classifyVars>>

\* a bug: the failure of step 2 ends the run like the failure of step 1
Step2Except_Exit ==
    /\ mpc = "step2" /\ lpc = "raised"
    /\ Logged("ERROR", "No se pudo enriquecer datos geograficos")
    /\ mpc' = "exit_1"
    /\ UNCHANGED <<raw, disk, geo, etlVars, exc, runs, enrichVars, classifyVars>>

\* except Exception: logger.warning(...); logger.info("Continuando ...")
Step2Except ==
    /\ mpc = "step2" /\ lpc = "raised"
    /\ Logged("WARNING", "No se pudo enriquecer datos geograficos")
    /\ mpc' = "step3"
    /\ UNCHANGED <<raw, disk, geo, etlVars, exc, runs, enrichVars, classifyVars>>

\* step 3, validate_data() inside main.py's try: the enriched file is
\* absent (a warning, return); it is read and summarised, or cannot be read
\* (an error, return); or an exception leaves validate_data and main.py logs
\* a warning
Step3Validate ==
    /\ mpc = "step3"
    /\ \/ /\ isna(disk[DIM_LOCATION_ENRICHED_FILE])
          /\ log' = log \o <<<<"WARNING", "El archivo enriquecido no existe">>,
                             <<"INFO", "Validacion completada">>>>
       \/ /\ notna(disk[DIM_LOCATION_ENRICHED_FILE])
          /\ \/ log' = log \o <<<<"INFO", "Total de registros">>,
                                <<"INFO", "Validacion completada">>>>
             \/ log' = log \o <<<<"ERROR", "Error leyendo archivo de validacion">>,
                                <<"INFO", "Validacion completada">>>>
       \/ Logged("WARNING", "Advertencia en validacion")
    /\ mpc' = "summary"
    /\ UNCHANGED <<raw, disk, geo, etlVars, exc, runs, enrichVars, classifyVars>>

Summary ==
    /\ mpc = "summary"
    /\ Logged("INFO", "PIPELINE COMPLETADO")
    /\ mpc' = "done"
    /\ UNCHANGED <<raw, disk, geo, etlVars, exc, runs, enrichVars, classifyVars>>

MainStep ==
    \/ Prevalidate
    \/ Step1Call
    \/ Step1Return
    \/ Step1Except
    \/ Step2Call
    \/ Step2Return
    \/ Step2Except
    \/ Step3Validate
    \/ Summary

\* the databases of the runs of main.py: absent, or holding the public
\* address in full and not the private one, or holding neither
MainGeo ==
    {NoGeo}
    \cup {g \in GeoDirs :
            /\ \A db \in Range(Databases) : DOMAIN Val(g[db]) = {"8.8.8.8"}
            /\ Val(g[CITY_DB])["8.8.8.8"] = FullCity
            /\ Val(g[ASN_DB])["8.8.8.8"].isp = Some("ISP")
            /\ Val(g[COUNTRY_DB])["8.8.8.8"].country = Some("France")}
    \cup {g \in GeoDirs : \A db \in Range(Databases) : DOMAIN Val(g[db]) = {}}

\* between two runs the GeoLite2 files may be installed, replaced or removed
ChangeDatabases ==
    /\ mpc \in {"done", "exit_1"}
    /\ runs < MaxRuns
    /\ geo' \in MainGeo \ {geo}
    /\ UNCHANGED <<raw, disk, etlVars, exc, runs, enrichVars, mainVars, classifyVars>>

\* the exports main.py is run on
MainInputs ==
    {None,
     Some([n \in {"a.json"} |-> File(<<E_song, E_podcast>>)]),
     Dir(<<E_missing>>, <<E_sentinel>>)}

Init ==
    /\ raw \in MainInputs
    /\ geo \in MainGeo
    /\ disk = NoDisk
    /\ epc = "idle"
    /\ df = <<>>
    /\ dims = NoDims
    /\ fact_table = None
    /\ exc = None
    /\ runs = 0
    /\ lpc = "idle"
    /\ loc = NoLocals
    /\ mpc = "start"
    /\ log = <<>>
    /\ platform = None
    /\ device_type = ""

Next == MainScript \/ MainStep \/ EtlStep \/ EnrichStep \/ RemoveInput \/ ChangeDatabases

\* main.py run up to MaxRuns times over the same directories
Spec == Init /\ [][Next]_vars

\* the program is sequential and each stage runs to completion: main.py and
\* the enrichment take the step they can take
SpecLive == Spec /\ WF_vars(MainStep) /\ WF_vars(EnrichStep)

----------------------------------------------------------------------------
(* Properties of the orchestrator, under Spec and SpecLive *)

InLog(level, msg) == <<level, msg>> \in Range(log)

Stage1Ok == InLog("INFO", "ETL completado exitosamente")
Stage2Ok == InLog("INFO", "Enriquecimiento de geolocalizacion completado")
ValidationRan ==
    \/ InLog("INFO", "Validacion completada")
    \/ InLog("WARNING", "Advertencia en validacion")

C7_State ==
    \* stage 2 and the validation start only after stage 1 returned
    /\ (lpc # "idle" \/ ValidationRan) => (epc = "returned" /\ Stage1Ok)
    \* after stage 1 returned the run does not exit with status 1
    /\ Stage1Ok => mpc # "exit_1"
    \* an exception of stage 1 ends the run before stage 2 starts
    /\ (epc = "raised" /\ mpc # "step1") =>
            (mpc = "exit_1" /\ lpc = "idle" /\ ~ValidationRan)
    \* the summary follows the validation
    /\ InLog("INFO", "PIPELINE COMPLETADO") => (Stage1Ok /\ ValidationRan)

C7_Step ==
    \* an exception of stage 2 is logged as a warning and step 3 follows
    /\ (mpc = "step2" /\ lpc = "raised") =>
            /\ mpc' = "step3"
            /\ log' = Append(log, <<"WARNING", "No se pudo enriquecer datos geograficos">>)
    \* an exception of stage 1 is logged as an error and the run exits
    /\ (mpc = "step1" /\ epc = "raised") => mpc' = "exit_1"
    \* whatever validate_data does, the summary follows
    /\ mpc = "step3" => mpc' = "summary"

\* C7: once stage 1 returned, an exception of stage 2 or of validate_data
\* is caught and logged as a warning and the run goes on to its summary and
\* ends without an error status; stage 2 and the validation start only
\* after stage 1 returned; an exception of stage 1 ends the run with exit
\* status 1 before stage 2 starts.
C7_LaterStagesOnlyWarn ==
    /\ []C7_State
    /\ [][C7_Step]_vars
    /\ \A n \in 1..MaxRuns : (runs = n /\ mpc = "step2") ~> (runs = n /\ mpc = "done")

\* a run that ended with its summary after stage 2 and validate_data both
\* raised
C7_Witness ==
    /\ mpc = "done"
    /\ InLog("WARNING", "No se pudo enriquecer datos geograficos")
    /\ InLog("WARNING", "Advertencia en validacion")
    /\ InLog("INFO", "PIPELINE COMPLETADO")

\* C8: at the end of a run whose stage 2 was skipped or failed there is no
\* enriched location dimension, and validate_data of that run read none.
C8_NoStaleEnrichedTable ==
    (mpc \in {"done", "exit_1"} /\ ~Stage2Ok) =>
        /\ isna(disk[DIM_LOCATION_ENRICHED_FILE])
        /\ ~InLog("INFO", "Total de registros")

\* enrich_location_dimension or validate_data is running
LaterStageRunning ==
    \/ mpc \in {"step2", "step3"}
    \/ lpc \in {"load", "merge", "write", "lookup"} \cup Range(OpenPc)

\* C15: no step of enrich_location_dimension or of validate_data, on a
\* path that succeeds or on one that fails, changes any of the six
\* artifacts of stage 1; the enrichment writes dim_location_enriched only
\* and validate_data writes nothing.
C15_LaterStagesKeepStage1Artifacts ==
    [][LaterStageRunning =>
            /\ \A k \in 1..Len(Stage1Files) : disk'[Stage1Files[k]] = disk[Stage1Files[k]]
            /\ mpc = "step3" => disk' = disk]_vars

\* a run in which the enrichment wrote its table and validate_data read
\* it, beside the six artifacts of stage 1
C15_Witness ==
    /\ mpc = "summary"
    /\ lpc = "returned"
    /\ InLog("INFO", "Total de registros")
    /\ \A a \in Artifacts : notna(disk[a])

====
